---------------------------- MODULE Spec2Model ----------------------------
(***************************************************************************)
(* Model of the epidemic grid simulation of src/simulator/sir.py.          *)
(*                                                                         *)
(* Probabilities and the values returned by random() are fixed-point       *)
(* numbers in units of 1/Scale: a probability p stands for p/Scale and a   *)
(* draw r in 0..Scale-1 stands for r/Scale, a value of [0,1).              *)
(***************************************************************************)
EXTENDS Integers, Sequences, FiniteSets, TLC

\* ----------------------------------------------------------------- bounds
Scale == 2
MaxWidth == 3
MaxHeight == 3
MaxCells == 4
MaxDay == 2
MaxSeed == 5
MaxNeighbourCells == 9
MaxDuration == 16

\* ------------------------------------------------------- class constants
SUSCEPTIBLE == 0
INFECTED == 1
RECOVERED == 2
DEAD == 3

STATUSES ==
    [status \in {"susceptible", "infected", "recovered", "dead"} |->
        CASE status = "susceptible" -> SUSCEPTIBLE
          [] status = "infected" -> INFECTED
          [] status = "recovered" -> RECOVERED
          [] status = "dead" -> DEAD]

VARIABLES
    width, height,              \* self.width, self.height
    recovery_probability,       \* self.recovery_probability
    infection_probability,      \* self.infection_probability
    death_probability,          \* self.death_probability
    day,                        \* self.day
    state,                      \* self.state, indexed by <<i, j>>
    ret,                        \* what the last call returned
    error,                      \* the exception the last call raised, or "none"
    calls,                      \* history: number of update() calls made
    cases,                      \* args.cases of main(): the caller's count for
                                \* infect_randomly
    args,                       \* the arguments i, j of update()'s call of
                                \* get_new_status and the draws <<r1, r2>>
                                \* random() has in store for it
    duration,                   \* args.duration of main()
    pc,                         \* where main() is
    frame,                      \* the number of frames FuncAnimation has shown
    xdata, ydata                \* LineAnimation's self.xdata, self.ydata

vars == <<width, height, recovery_probability, infection_probability,
          death_probability, day, state, ret, error, calls, cases, args,
          duration, pc, frame, xdata, ydata>>

\* the variables of the caller
driver == <<cases, args, duration, pc, frame, xdata, ydata>>

NoArgs == <<>>

\* LineAnimation.__init__: no point yet, one empty series per status
NoSeries == [status \in DOMAIN STATUSES |-> <<>>]

\* the simulation used as a library: no plot and no animation is running
Library ==
    /\ duration = 0
    /\ pc = "library"
    /\ frame = 0
    /\ xdata = <<>>
    /\ ydata = NoSeries

params == <<width, height, recovery_probability, infection_probability,
            death_probability>>

\* ------------------------------------------------------------ input sets
Probs == 0..Scale
Draw == 0..(Scale - 1)
Draws == Draw \X Draw
Dims == {d \in (1..MaxWidth) \X (1..MaxHeight) : d[1] * d[2] <= MaxCells}

Cells == (0..(width - 1)) \X (0..(height - 1))

NoReturn == [op |-> "none", value |-> <<>>]

max(a, b) == IF a >= b THEN a ELSE b
min(a, b) == IF a <= b THEN a ELSE b

\* range(lo, hi) of Python: lo, lo+1, ..., hi-1
range(lo, hi) == lo..(hi - 1)

\* the upper end included, as random.randint(0, high) does
randint_inclusive(high) == 0..high

\* numpy.random.randint(high): the values it can return
randint(high) == 0..(high - 1)

\* ------------------------------------------------------------ operations

\* the grid allocated as np.zeros((height, width))
ConstructTransposed(w, h, recovery, infection, death) ==
    /\ day = 0
    /\ width = w
    /\ height = h
    /\ recovery_probability = recovery
    /\ infection_probability = infection
    /\ death_probability = death
    /\ state = [c \in (0..(h - 1)) \X (0..(w - 1)) |-> SUSCEPTIBLE]

\* Simulation.__init__
Construct(w, h, recovery, infection, death) ==
    /\ day = 0
    /\ width = w
    /\ height = h
    /\ recovery_probability = recovery
    /\ infection_probability = infection
    /\ death_probability = death
    /\ state = [c \in (0..(w - 1)) \X (0..(h - 1)) |-> SUSCEPTIBLE]

Init ==
    /\ \E d \in Dims : \E recovery \in Probs, infection \in Probs, death \in Probs :
           Construct(d[1], d[2], recovery, infection, death)
    /\ ret = NoReturn
    /\ error = "none"
    /\ calls = 0
    /\ cases = 0
    /\ args = NoArgs
    /\ Library

ivals(i) == range(max(i - 1, 0), min(i + 2, width))
jvals(j) == range(max(j - 1, 0), min(j + 2, height))

\* the neighbourhood wraps around the edges of the grid
num_infected_around_wrapped(grid, i, j) ==
    Cardinality({p \in {<<(i + di) % width, (j + dj) % height>> :
                            di \in -1..1, dj \in -1..1} :
                    p # <<i, j>> /\ grid[p] = INFECTED})

\* Simulation.num_infected_around: number counts the pairs (ip, jp) of the
\* two loops that pass both tests
num_infected_around(grid, i, j) ==
    Cardinality({p \in ivals(i) \X jvals(j) :
                    p # <<i, j>> /\ grid[p] = INFECTED})

\* no immunity: a Recovered cell is infected by its neighbours as a
\* Susceptible one is
get_new_status_reinfection(grid, i, j, d) ==
    LET status == grid[<<i, j>>]
    IN  IF status = INFECTED
        THEN IF recovery_probability > d[1] THEN RECOVERED
             ELSE IF death_probability > d[2] THEN DEAD
             ELSE status
        ELSE IF status \in {SUSCEPTIBLE, RECOVERED}
        THEN IF num_infected_around(grid, i, j) * infection_probability > d[1]
             THEN INFECTED
             ELSE status
        ELSE status

\* immunity is lost: a Recovered cell is Susceptible the next day
get_new_status_waning(grid, i, j, d) ==
    LET status == grid[<<i, j>>]
    IN  IF status = INFECTED
        THEN IF recovery_probability > d[1] THEN RECOVERED
             ELSE IF death_probability > d[2] THEN DEAD
             ELSE status
        ELSE IF status = SUSCEPTIBLE
        THEN IF num_infected_around(grid, i, j) * infection_probability > d[1]
             THEN INFECTED
             ELSE status
        ELSE IF status = RECOVERED THEN SUSCEPTIBLE
        ELSE status

\* one infected neighbour more than the grid has: infection from outside
get_new_status_imported(grid, i, j, d) ==
    LET status == grid[<<i, j>>]
    IN  IF status = INFECTED
        THEN IF recovery_probability > d[1] THEN RECOVERED
             ELSE IF death_probability > d[2] THEN DEAD
             ELSE status
        ELSE IF status = SUSCEPTIBLE
        THEN IF (num_infected_around(grid, i, j) + 1) * infection_probability
                    > d[1]
             THEN INFECTED
             ELSE status
        ELSE status

\* every status but Susceptible takes the branch of the infected
get_new_status_no_terminal(grid, i, j, d) ==
    LET status == grid[<<i, j>>]
    IN  IF status # SUSCEPTIBLE
        THEN IF recovery_probability > d[1] THEN RECOVERED
             ELSE IF death_probability > d[2] THEN DEAD
             ELSE status
        ELSE IF num_infected_around(grid, i, j) * infection_probability > d[1]
             THEN INFECTED
             ELSE status

\* death tested before recovery
get_new_status_death_first(grid, i, j, d) ==
    LET status == grid[<<i, j>>]
    IN  IF status = INFECTED
        THEN IF death_probability > d[1] THEN DEAD
             ELSE IF recovery_probability > d[2] THEN RECOVERED
             ELSE status
        ELSE IF status = SUSCEPTIBLE
        THEN IF num_infected_around(grid, i, j) * infection_probability > d[1]
             THEN INFECTED
             ELSE status
        ELSE status

\* the number of infected neighbours tested, not multiplied
get_new_status_no_product(grid, i, j, d) ==
    LET status == grid[<<i, j>>]
    IN  IF status = INFECTED
        THEN IF recovery_probability > d[1] THEN RECOVERED
             ELSE IF death_probability > d[2] THEN DEAD
             ELSE status
        ELSE IF status = SUSCEPTIBLE
        THEN IF num_infected_around(grid, i, j) > 0
                  /\ infection_probability > d[1]
             THEN INFECTED
             ELSE status
        ELSE status

\* the infection test with >= in place of >
get_new_status_ge(grid, i, j, d) ==
    LET status == grid[<<i, j>>]
    IN  IF status = INFECTED
        THEN IF recovery_probability > d[1] THEN RECOVERED
             ELSE IF death_probability > d[2] THEN DEAD
             ELSE status
        ELSE IF status = SUSCEPTIBLE
        THEN IF num_infected_around(grid, i, j) * infection_probability >= d[1]
             THEN INFECTED
             ELSE status
        ELSE status

\* Simulation.get_new_status; d = <<r1, r2>> are the values the first and the
\* second call of random() return
get_new_status(grid, i, j, d) ==
    LET status == grid[<<i, j>>]
    IN  IF status = INFECTED
        THEN IF recovery_probability > d[1] THEN RECOVERED
             ELSE IF death_probability > d[2] THEN DEAD
             ELSE status
        ELSE IF status = SUSCEPTIBLE
        THEN IF num_infected_around(grid, i, j) * infection_probability > d[1]
             THEN INFECTED
             ELSE status
        ELSE status

\* the rule reads the grid being written
CellStepInPlace(old_state, new_state, i, j, d) ==
    [new_state EXCEPT ![<<i, j>>] = get_new_status(new_state, i, j, d)]

\* the body of the loop of Simulation.update
CellStep(old_state, new_state, i, j, d) ==
    [new_state EXCEPT ![<<i, j>>] = get_new_status(old_state, i, j, d)]

\* the loops of Simulation.update from cell number k on, over every value the
\* draws can take: the set of the grids new_state can end as
RECURSIVE UpdateLoop(_, _, _)
UpdateLoop(old_state, new_states, k) ==
    IF k >= width * height THEN new_states
    ELSE UpdateLoop(old_state,
                    {CellStep(old_state, n, k \div height, k % height, d) :
                        n \in new_states, d \in Draws},
                    k + 1)

\* the increment left out
NextDaySkipped(d) == d

NextDay(d) == d + 1

\* Simulation.update
Update ==
    /\ day < MaxDay
    /\ state' \in UpdateLoop(state, {state}, 0)
    /\ day' = NextDay(day)
    /\ calls' = calls + 1
    /\ ret' = NoReturn
    /\ error' = "none"
    /\ UNCHANGED <<params, driver>>

\* self.state[i, j] = value: the grid, or the IndexError numpy raises
setitem(grid, i, j, value) ==
    IF i \in 0..(width - 1) /\ j \in 0..(height - 1)
    THEN [grid |-> [grid EXCEPT ![<<i, j>>] = value], error |-> "none"]
    ELSE [grid |-> grid, error |-> "IndexError"]

\* one round of the loop of Simulation.infect_randomly, over every value the
\* two draws can take; a raised exception ends the loop
InfectRound(outcomes) ==
    {o \in outcomes : o.error # "none"}
    \cup IF width <= 0 \/ height <= 0
         THEN \* randint(high) raises ValueError for high <= 0
              {[grid |-> o.grid, error |-> "ValueError"] :
                  o \in {o \in outcomes : o.error = "none"}}
         ELSE UNION {{setitem(o.grid, i, j, INFECTED) :
                         i \in randint(width), j \in randint(height)} :
                     o \in {o \in outcomes : o.error = "none"}}

\* one round too many
RECURSIVE InfectLoopExtra(_, _)
InfectLoopExtra(outcomes, n) ==
    IF n = 0 THEN InfectRound(outcomes)
    ELSE InfectLoopExtra(InfectRound(outcomes), n - 1)

\* the loop of Simulation.infect_randomly with n rounds left
RECURSIVE InfectLoop(_, _)
InfectLoop(outcomes, n) ==
    IF n = 0 THEN outcomes ELSE InfectLoop(InfectRound(outcomes), n - 1)

\* what infect_randomly(num) can leave behind: the grid and the exception
InfectOutcomes(num) == InfectLoop({[grid |-> state, error |-> "none"]}, num)

\* Simulation.infect_randomly
InfectRandomly(num) ==
    /\ \E o \in InfectOutcomes(num) :
          /\ state' = o.grid
          /\ error' = o.error
    /\ ret' = NoReturn
    /\ UNCHANGED <<params, day, calls, driver>>

\* the outcomes of the loop after 0, 1, ..., n more rounds
RECURSIVE InfectUpTo(_, _)
InfectUpTo(outcomes, n) ==
    IF n = 0 THEN outcomes
    ELSE outcomes \cup InfectUpTo(InfectRound(outcomes), n - 1)

\* infect_randomly(num) for some num of 0..MaxSeed:
\* \E num \in 0..MaxSeed : InfectRandomly(num), each round computed once
Seed ==
    /\ \E o \in InfectUpTo({[grid |-> state, error |-> "none"]}, MaxSeed) :
          /\ state' = o.grid
          /\ error' = o.error
    /\ ret' = NoReturn
    /\ UNCHANGED <<params, day, calls, driver>>

\* the division of Python 2: the quotient rounded down
FloorDiv(a, b) == <<a \div b, 1>>

\* 100 * count / total: Python's true division, kept as the exact fraction
TrueDiv(a, b) == <<a, b>>

count_nonzero(grid, statusnum) ==
    Cardinality({c \in DOMAIN grid : grid[c] = statusnum})

\* Simulation.get_percentage_status
get_percentage_status ==
    LET total == width * height
    IN  [status \in DOMAIN STATUSES |->
            TrueDiv(100 * count_nonzero(state, STATUSES[status]), total)]

\* the cells are counted by clearing them in self.state
GetPercentageStatusInPlace ==
    /\ ret' = [op |-> "get_percentage_status", value |-> get_percentage_status]
    /\ error' = "none"
    /\ state' = [c \in DOMAIN state |-> SUSCEPTIBLE]
    /\ UNCHANGED <<params, day, calls, driver>>

GetPercentageStatus ==
    /\ ret' = [op |-> "get_percentage_status", value |-> get_percentage_status]
    /\ error' = "none"
    /\ UNCHANGED <<params, day, state, calls, driver>>

\* the colour exchanged between two statuses
COLOURMAP_swapped ==
    [status \in DOMAIN STATUSES |->
        CASE status = "susceptible" -> "green"
          [] status = "infected" -> "blue"
          [] status = "recovered" -> "red"
          [] status = "dead" -> "black"]

COLOURMAP ==
    [status \in DOMAIN STATUSES |->
        CASE status = "susceptible" -> "green"
          [] status = "infected" -> "red"
          [] status = "recovered" -> "blue"
          [] status = "dead" -> "black"]

COLOURMAP_RGB ==
    [colour \in {"red", "green", "blue", "black"} |->
        CASE colour = "red" -> <<255, 0, 0>>
          [] colour = "green" -> <<0, 255, 0>>
          [] colour = "blue" -> <<0, 0, 255>>
          [] colour = "black" -> <<0, 0, 0>>]

\* STATUSES.items(): the statuses in the order the dict lists them
StatusItems == <<"susceptible", "infected", "recovered", "dead">>

\* the loop of Simulation.get_rgb_matrix from item k on:
\* rgb_matrix[self.state == statusnum] = colour_rgb
RECURSIVE RgbLoop(_, _)
RgbLoop(rgb_matrix, k) ==
    IF k > Len(StatusItems) THEN rgb_matrix
    ELSE LET status == StatusItems[k]
             statusnum == STATUSES[status]
             colour_name == COLOURMAP[status]
             colour_rgb == COLOURMAP_RGB[colour_name]
         IN  RgbLoop([c \in DOMAIN rgb_matrix |->
                         IF state[c] = statusnum THEN colour_rgb
                         ELSE rgb_matrix[c]],
                     k + 1)

\* Simulation.get_rgb_matrix
get_rgb_matrix == RgbLoop([c \in Cells |-> <<0, 0, 0>>], 1)

GetRgbMatrix ==
    /\ ret' = [op |-> "get_rgb_matrix", value |-> get_rgb_matrix]
    /\ error' = "none"
    /\ UNCHANGED <<params, day, state, calls, driver>>

Next ==
    \/ Update
    \/ Seed
    \/ GetPercentageStatus

Spec == Init /\ [][Next]_vars

\* ------------------------------------------- num_infected_around, applied
\* A freshly constructed simulation on a grid of up to MaxNeighbourCells
\* cells, seeded cell by cell, on which num_infected_around is called.

NeighbourDims ==
    {d \in (1..MaxWidth) \X (1..MaxHeight) : d[1] * d[2] <= MaxNeighbourCells}

InitNeighbours ==
    /\ \E d \in NeighbourDims : Construct(d[1], d[2], 1, 1, 0)
    /\ ret = NoReturn
    /\ error = "none"
    /\ calls = 0
    /\ cases = 1
    /\ args = NoArgs
    /\ Library

\* self.num_infected_around(self.state, i, j)
NumInfectedAround(i, j) ==
    /\ ret' = [op |-> "num_infected_around",
               value |-> [i |-> i, j |-> j,
                          number |-> num_infected_around(state, i, j)]]
    /\ error' = "none"
    /\ UNCHANGED <<params, day, state, calls, driver>>

NextNeighbours ==
    \/ InfectRandomly(cases)
    \/ \E c \in Cells : NumInfectedAround(c[1], c[2])

SpecNeighbours == InitNeighbours /\ [][NextNeighbours]_vars

\* ------------------------------------------------ get_new_status, applied
\* get_new_status called once, for the cell and with the draws of args, on
\* the grids that infect_randomly and update can produce.

Terminal(grid) == {c \in DOMAIN grid : grid[c] \in {RECOVERED, DEAD}}

\* The grids the two mutating operations can produce from the fresh grid:
\* a Recovered cell needs a draw below recovery_probability, a Dead cell a
\* draw not below it and one below death_probability, and a cell still
\* Susceptible beside a cell that was Infected needs a draw not below
\* infection_probability. One seeding and one update per terminal cell
\* produce such a grid, and a last seeding its Infected cells.
Attainable(grid) ==
    /\ (\E c \in DOMAIN grid : grid[c] = RECOVERED) => recovery_probability > 0
    /\ (\E c \in DOMAIN grid : grid[c] = DEAD) =>
           death_probability > 0 /\ recovery_probability < Scale
    /\ (\E c \in DOMAIN grid, n \in Terminal(grid) :
            /\ grid[c] = SUSCEPTIBLE
            /\ n # c
            /\ n[1] - c[1] \in -1..1
            /\ n[2] - c[2] \in -1..1) => infection_probability < Scale

InitRule ==
    /\ \E d \in Dims : \E recovery \in Probs, infection \in Probs, death \in Probs :
          /\ width = d[1]
          /\ height = d[2]
          /\ recovery_probability = recovery
          /\ infection_probability = infection
          /\ death_probability = death
    /\ state \in [Cells -> {SUSCEPTIBLE, INFECTED, RECOVERED, DEAD}]
    /\ Attainable(state)
    /\ day = Cardinality(Terminal(state))
    /\ calls = day
    /\ cases = 0
    /\ \E c \in Cells, d \in Draws : args = <<c[1], c[2], d>>
    /\ Library
    /\ ret = NoReturn
    /\ error = "none"

\* self.get_new_status(self.state, i, j), random() returning d[1], then d[2]
GetNewStatus(i, j, d) ==
    /\ ret' = [op |-> "get_new_status",
               value |-> [i |-> i, j |-> j, r1 |-> d[1], r2 |-> d[2],
                          status |-> get_new_status(state, i, j, d)]]
    /\ error' = "none"
    /\ UNCHANGED <<params, day, state, calls, driver>>

NextRule == GetNewStatus(args[1], args[2], args[3])

SpecRule == InitRule /\ [][NextRule]_vars

\* ----------------------------------------------------- seeding by a caller
\* A caller that constructs the simulation and hands its count, cases, to
\* infect_randomly, as main() does, between any number of updates; the
\* probabilities are the two ends of [0, 1].

SeedProbs == {0, Scale}

InitSeed ==
    /\ \E d \in Dims :
       \E recovery \in SeedProbs, infection \in SeedProbs, death \in SeedProbs :
           Construct(d[1], d[2], recovery, infection, death)
    /\ cases \in 0..MaxSeed
    /\ args = NoArgs
    /\ Library
    /\ ret = NoReturn
    /\ error = "none"
    /\ calls = 0

NextSeed ==
    \/ InfectRandomly(cases)
    \/ Update

SpecSeed == InitSeed /\ [][NextSeed]_vars

\* ------------------------------------------- construction, as the code has it
\* A caller that hands Simulation() dimensions and probabilities it has not
\* checked: the dimensions from -1 on, the probabilities the two ends of
\* [0, 1] and the values next to them outside.

UncheckedDims ==
    {d \in (-1..MaxWidth) \X (-1..MaxHeight) : d[1] * d[2] <= MaxCells}

UncheckedProbs == {-1, 0, Scale, Scale + 1}

\* np.zeros((w, h), int): the array, or the ValueError numpy raises for a
\* negative dimension
zeros(w, h) ==
    IF w < 0 \/ h < 0
    THEN [array |-> <<>>, error |-> "ValueError"]
    ELSE [array |-> [c \in (0..(w - 1)) \X (0..(h - 1)) |-> 0],
          error |-> "none"]

\* the probabilities are checked to lie in [0, 1]
NewValidated(w, h, recovery, infection, death) ==
    /\ day = 0
    /\ width = w
    /\ height = h
    /\ recovery_probability = recovery
    /\ infection_probability = infection
    /\ death_probability = death
    /\ state = [c \in DOMAIN zeros(w, h).array |-> SUSCEPTIBLE]
    /\ IF {recovery, infection, death} \subseteq 0..Scale
       THEN error = zeros(w, h).error
       ELSE error = "ValueError"
    /\ pc = IF error = "none" THEN "library" ELSE "failed"

\* Simulation(w, h, recovery, infection, death) as its caller sees it: the
\* object, or the exception __init__ ends with
New(w, h, recovery, infection, death) ==
    /\ day = 0
    /\ width = w
    /\ height = h
    /\ recovery_probability = recovery
    /\ infection_probability = infection
    /\ death_probability = death
    /\ state = [c \in DOMAIN zeros(w, h).array |-> SUSCEPTIBLE]
    /\ error = zeros(w, h).error
    /\ pc = IF error = "none" THEN "library" ELSE "failed"

InitUnchecked ==
    /\ \E d \in UncheckedDims :
       \E recovery \in UncheckedProbs, infection \in UncheckedProbs,
          death \in UncheckedProbs :
           New(d[1], d[2], recovery, infection, death)
    /\ ret = NoReturn
    /\ calls = 0
    /\ cases = 0
    /\ args = NoArgs
    /\ duration = 0
    /\ frame = 0
    /\ xdata = <<>>
    /\ ydata = NoSeries

\* no call is made on an object that was not constructed
NextUnchecked ==
    \/ pc = "library" /\ Seed
    \/ pc = "library" /\ Update

SpecUnchecked == InitUnchecked /\ [][NextUnchecked]_vars

\* --------------------------------------------------------- main() of runsim
\* main() constructs a square simulation, seeds it with args.cases and hands
\* it with args.duration to plot_simulation or to an Animation; the
\* probabilities are the two ends of [0, 1].

Sizes == {n \in 1..MaxWidth : n * n <= MaxCells}

\* main() up to its call of Simulation(), duration being one of durations
Main(durations) ==
    /\ \E size \in Sizes :
       \E recovery \in SeedProbs, infection \in SeedProbs, death \in SeedProbs :
           Construct(size, size, recovery, infection, death)
    /\ cases \in 0..MaxSeed
    /\ duration \in durations
    /\ pc = "seed"
    /\ args = NoArgs
    /\ frame = 0
    /\ xdata = <<>>
    /\ ydata = NoSeries
    /\ ret = NoReturn
    /\ error = "none"
    /\ calls = 0

\* simulation.infect_randomly(args.cases) of main(), which goes on at next
MainSeed(next) ==
    /\ pc = "seed"
    /\ \E o \in InfectOutcomes(cases) :
          /\ state' = o.grid
          /\ error' = o.error
    /\ pc' = next
    /\ ret' = NoReturn
    /\ UNCHANGED <<params, day, calls, cases, args, duration, frame, xdata, ydata>>

\* ----------------------------------------------------------- plot_simulation

W == 5
H == 3
N == W * H

\* the product divided by the number of panels
days_over_N(T) == [k \in 1..N |-> (T * (k - 1)) \div N]

\* days = [(duration * i) // (N - 1) for i in range(N)], i being k - 1
days(T) == [k \in 1..N |-> (T * (k - 1)) \div (N - 1)]

\* while simulation.day < day: simulation.update()
\* sim holds the grids the simulation can have, its day and the number of
\* calls of update() made
RECURSIVE WhileLoop(_, _)
WhileLoop(sim, target) ==
    IF sim.day < target
    THEN WhileLoop([grids |-> UNION {UpdateLoop(g, {g}, 0) : g \in sim.grids},
                    day |-> NextDay(sim.day),
                    calls |-> sim.calls + 1],
                   target)
    ELSE sim

\* for ax, day in zip(axes, days), from panel k on; of each panel the figure
\* keeps the day of its title and simulation.day as it was when
\* get_rgb_matrix() was read for it
RECURSIVE PlotLoop(_, _, _, _)
PlotLoop(sim, targets, k, fig) ==
    IF k > Len(targets) THEN [sim |-> sim, fig |-> fig]
    ELSE LET after == WhileLoop(sim, targets[k])
         IN  PlotLoop(after, targets, k + 1,
                      Append(fig, [title |-> targets[k], day |-> after.day]))

\* plot_simulation(simulation, duration)
PlotSimulation ==
    /\ pc = "plot"
    /\ LET out == PlotLoop([grids |-> {state}, day |-> day, calls |-> calls],
                           days(duration), 1, <<>>)
       IN  /\ state' \in out.sim.grids
           /\ day' = out.sim.day
           /\ calls' = out.sim.calls
           /\ ret' = [op |-> "plot_simulation", value |-> out.fig]
    /\ pc' = "done"
    /\ error' = "none"
    /\ UNCHANGED <<params, cases, args, duration, frame, xdata, ydata>>

InitPlot == Main(0..MaxDuration)

NextPlot ==
    \/ MainSeed("plot")
    \/ PlotSimulation

SpecPlot == InitPlot /\ [][NextPlot]_vars

\* ----------------------------------------------------------------- Animation

\* frames=range(100) of show() and of save()
frames == range(0, 100)

\* Animation(simulation, args.duration): its LineAnimation starts with no point
NewAnimation ==
    /\ pc = "animation"
    /\ xdata' = <<>>
    /\ ydata' = NoSeries
    /\ pc' = "show"
    /\ UNCHANGED <<params, day, state, ret, error, calls, cases, args,
                   duration, frame>>

\* Animation.init, which FuncAnimation calls before the first frame of a
\* playback: the grid image is set from get_rgb_matrix(), the limits of the
\* axes of the lines are set to [0, duration] and [0, 100]
AnimationInit ==
    /\ pc = "show"
    /\ ret' = [op |-> "init", value |-> get_rgb_matrix]
    /\ frame' = 0
    /\ pc' = IF 0 \in frames THEN "frames" ELSE "done"
    /\ UNCHANGED <<params, day, state, error, calls, cases, args, duration,
                   xdata, ydata>>

\* Animation.update(framenumber), which FuncAnimation calls once for each
\* frame of frames: the simulation is updated, then the image is set from
\* get_rgb_matrix() and LineAnimation.update appends a point to each line
AnimationUpdate ==
    /\ pc = "frames"
    /\ frame \in frames
    /\ UNCHANGED <<params, cases, args, duration>>
    /\ state' \in UpdateLoop(state, {state}, 0)
    /\ day' = NextDay(day)
    /\ calls' = calls + 1
    /\ xdata' = Append(xdata, Len(xdata))
    /\ ydata' = [status \in DOMAIN STATUSES |->
                    Append(ydata[status], get_percentage_status'[status])]
    /\ ret' = [op |-> "update", value |-> get_rgb_matrix']
    /\ frame' = frame + 1
    /\ pc' = IF frame + 1 \in frames THEN "frames" ELSE "done"
    /\ error' = "none"

InitAnimation == Main(0..MaxDay)

NextAnimation ==
    \/ MainSeed("animation")
    \/ NewAnimation
    \/ AnimationInit
    \/ AnimationUpdate

SpecAnimation == InitAnimation /\ [][NextAnimation]_vars

\* ------------------------------------------------------- a run without end
\* A caller that constructs the simulation, seeds it once with any count and
\* then calls update() again and again, as the loop of the docstring of
\* Simulation does without its limit of 10 days. day and calls are kept up
\* to MaxDay: the days after MaxDay are not counted.

\* a probability of 0, the least one above 0, and 1
ForeverProbs == {0, 1, Scale}

InitForever ==
    /\ \E d \in Dims :
       \E recovery \in ForeverProbs, infection \in ForeverProbs,
          death \in ForeverProbs :
           Construct(d[1], d[2], recovery, infection, death)
    /\ cases = 0
    /\ duration = 0
    /\ pc = "seed"
    /\ args = NoArgs
    /\ frame = 0
    /\ xdata = <<>>
    /\ ydata = NoSeries
    /\ ret = NoReturn
    /\ error = "none"
    /\ calls = 0

\* the one call of infect_randomly(num), for some num of 0..MaxSeed
SeedOnce ==
    /\ pc = "seed"
    /\ \E o \in InfectUpTo({[grid |-> state, error |-> "none"]}, MaxSeed) :
          /\ state' = o.grid
          /\ error' = o.error
    /\ pc' = "run"
    /\ ret' = NoReturn
    /\ UNCHANGED <<params, day, calls, cases, args, duration, frame, xdata, ydata>>

\* Simulation.update, called once more
UpdateForever ==
    /\ pc = "run"
    /\ state' \in UpdateLoop(state, {state}, 0)
    /\ day' = min(NextDay(day), MaxDay)
    /\ calls' = min(calls + 1, MaxDay)
    /\ ret' = NoReturn
    /\ error' = "none"
    /\ UNCHANGED <<params, driver>>

NextForever ==
    \/ SeedOnce
    \/ UpdateForever

\* an update in which the draws of random() make an Infected cell recover
\* or die, as they can where a cell is Infected and the recovery or the
\* death probability is above 0
Exit ==
    /\ recovery_probability > 0 \/ death_probability > 0
    /\ \E c \in Cells : state[c] = INFECTED
    /\ UpdateForever
    /\ \E c \in Cells : state[c] = INFECTED /\ state'[c] # INFECTED

\* The caller goes on: the seeding is made and update() is called as long
\* as an Infected cell can recover or die. The draws are fair: each day an
\* Infected cell recovers or dies with the same probability, so where that
\* probability is above 0 the
\* updates do not go on for ever without any Infected cell recovering or
\* dying. This is the least that fairness to each Infected cell gives: a
\* cell is Infected once at most, so a run in which Exit stays possible and
\* is never taken keeps one cell Infected for ever.
SpecForever ==
    /\ InitForever
    /\ [][NextForever]_vars
    /\ WF_vars(SeedOnce)
    /\ WF_vars(Exit)

\* ------------------------------------------------- the queries by a caller
\* The same caller, reading the percentages and the colour matrix between
\* its calls of infect_randomly and update.

NextQuery ==
    \/ InfectRandomly(cases)
    \/ Update
    \/ GetPercentageStatus
    \/ GetRgbMatrix

SpecQuery == InitSeed /\ [][NextQuery]_vars

\* ---------------------------------------------------------------- claims

\* the grid, read in the order of the loops of update (i outer, j inner)
Flat(grid, seq) ==
    \A c \in DOMAIN grid : grid[c] = seq[c[1] * height + c[2] + 1]

Line3 == (width = 1 /\ height = 3) \/ (width = 3 /\ height = 1)

\* a step of update()
UpdateStep == calls' = calls + 1

\* C1: update() computes every cell's new status from the grid as it was
\* before the update and the draws, never from statuses written during the
\* same update; on a 1x3 grid [Infected, Susceptible, Susceptible] with
\* infection and recovery probability 1 one update gives exactly
\* [Recovered, Infected, Susceptible].
SnapshotSemantics ==
    [][UpdateStep =>
        /\ \A c \in Cells : \E d \in Draws :
               state'[c] = get_new_status(state, c[1], c[2], d)
        /\ (/\ Line3
            /\ Flat(state, <<INFECTED, SUSCEPTIBLE, SUSCEPTIBLE>>)
            /\ infection_probability = Scale
            /\ recovery_probability = Scale)
           => Flat(state', <<RECOVERED, INFECTED, SUSCEPTIBLE>>)]_vars

SnapshotWitness ==
    /\ Line3
    /\ infection_probability = Scale
    /\ recovery_probability = Scale
    /\ day = 1
    /\ Flat(state, <<RECOVERED, INFECTED, SUSCEPTIBLE>>)

\* C2: a cell that is Dead or Recovered before update() has the same status
\* after it, whatever the draws and the parameters.
TerminalAbsorbing ==
    [][UpdateStep =>
        \A c \in Cells :
            state[c] \in {DEAD, RECOVERED} => state'[c] = state[c]]_vars

TerminalWitness ==
    /\ day = 2
    /\ \E c \in Cells : state[c] = DEAD
    /\ \E c \in Cells : state[c] = RECOVERED
    /\ \A c \in Cells : state[c] \in {DEAD, RECOVERED}

\* the cells around c: at most one step away in each direction, inside the
\* grid, c itself left out
MooreNeighbours(c) ==
    {n \in Cells :
        /\ n # c
        /\ n[1] - c[1] \in -1..1
        /\ n[2] - c[2] \in -1..1}

InfectedNeighbours(grid, c) ==
    {n \in MooreNeighbours(c) : grid[n] = INFECTED}

\* C3: a Susceptible cell with no Infected neighbour before update() is
\* Susceptible after it; a cell that turns from Susceptible to Infected had
\* an Infected neighbour before the update.
NoSpontaneousInfection ==
    [][UpdateStep =>
        \A c \in Cells :
            /\ (state[c] = SUSCEPTIBLE /\ InfectedNeighbours(state, c) = {})
                  => state'[c] = SUSCEPTIBLE
            /\ (state[c] = SUSCEPTIBLE /\ state'[c] = INFECTED)
                  => InfectedNeighbours(state, c) # {}]_vars

NoSpontaneousInfectionWitness ==
    /\ Line3
    /\ infection_probability = Scale
    /\ recovery_probability = 0
    /\ death_probability = 0
    /\ day = 1
    /\ Flat(state, <<INFECTED, INFECTED, SUSCEPTIBLE>>)

OnlyInfected(cells) ==
    \A c \in Cells : state[c] = (IF c \in cells THEN INFECTED ELSE SUSCEPTIBLE)

\* C5: num_infected_around(i, j) is the number of Infected cells at most one
\* step away from (i, j) in each direction, inside the grid, (i, j) itself
\* left out: at most 8 in the interior, 5 on an edge, 3 in a corner, and 1
\* for each other cell of a 2x2 grid whose only Infected cell is (0, 0).
ClippedMooreCount ==
    ret.op = "num_infected_around" =>
        LET i == ret.value.i
            j == ret.value.j
            number == ret.value.number
            iedge == i \in {0, width - 1}
            jedge == j \in {0, height - 1}
        IN  /\ number = Cardinality(InfectedNeighbours(state, <<i, j>>))
            /\ number <= 8
            /\ (iedge \/ jedge) => number <= 5
            /\ (iedge /\ jedge) => number <= 3
            /\ (width = 2 /\ height = 2 /\ OnlyInfected({<<0, 0>>})
                    /\ <<i, j>> # <<0, 0>>) => number = 1

ClippedMooreCountWitness ==
    /\ width = 3
    /\ height = 3
    /\ OnlyInfected(Cells)
    /\ ret.op = "num_infected_around"
    /\ ret.value.i = 1
    /\ ret.value.j = 1
    /\ ret.value.number = 8

\* C4: the day counter starts at 0, equals the number of update() calls made
\* so far whatever seeding and query calls come between them, and no step
\* decreases it.
MonotonicClock ==
    /\ day = 0
    /\ calls = 0
    /\ [][/\ day' >= day
          /\ calls' = calls + 1 => day' = day + 1
          /\ calls' = calls => day' = day]_vars

MonotonicClockWitness ==
    /\ day = 2
    /\ calls = 2
    /\ ret.op = "get_percentage_status"
    /\ \E c \in Cells : state[c] = INFECTED

\* C6: an Infected cell becomes Recovered if the first draw is below
\* recovery_probability, otherwise Dead if the second draw is below
\* death_probability, otherwise stays Infected; with recovery probability 1
\* it always becomes Recovered, whatever death_probability, and it never
\* becomes Susceptible.
InfectedRule ==
    (ret.op = "get_new_status"
        /\ state[<<ret.value.i, ret.value.j>>] = INFECTED) =>
        LET r1 == ret.value.r1
            r2 == ret.value.r2
            new == ret.value.status
        IN  /\ r1 < recovery_probability => new = RECOVERED
            /\ (r1 >= recovery_probability /\ r2 < death_probability)
                  => new = DEAD
            /\ (r1 >= recovery_probability /\ r2 >= death_probability)
                  => new = INFECTED
            /\ recovery_probability = Scale => new = RECOVERED
            /\ new # SUSCEPTIBLE

InfectedRuleWitness ==
    /\ ret.op = "get_new_status"
    /\ state[<<ret.value.i, ret.value.j>>] = INFECTED
    /\ recovery_probability = Scale
    /\ death_probability = Scale
    /\ ret.value.status = RECOVERED

\* C7: a Susceptible cell with n Infected neighbours becomes Infected exactly
\* when the draw is below n * infection_probability and stays Susceptible
\* otherwise; the product is not clamped, so with n * infection_probability
\* at least 1 it becomes Infected for every draw; it never becomes Recovered
\* or Dead.
SusceptibleRule ==
    (ret.op = "get_new_status"
        /\ state[<<ret.value.i, ret.value.j>>] = SUSCEPTIBLE) =>
        LET n == Cardinality(
                    InfectedNeighbours(state, <<ret.value.i, ret.value.j>>))
            r == ret.value.r1
            new == ret.value.status
        IN  /\ new = INFECTED <=> r < n * infection_probability
            /\ new # INFECTED => new = SUSCEPTIBLE
            /\ n * infection_probability >= Scale => new = INFECTED
            /\ new \notin {RECOVERED, DEAD}

SusceptibleRuleWitness ==
    /\ ret.op = "get_new_status"
    /\ state[<<ret.value.i, ret.value.j>>] = SUSCEPTIBLE
    /\ Cardinality(InfectedNeighbours(state, <<ret.value.i, ret.value.j>>)) = 2
    /\ infection_probability = Scale - 1
    /\ ret.value.r1 = Scale - 1
    /\ ret.value.status = INFECTED

\* a step of infect_randomly(cases) under SpecSeed
SeedStep == calls' = calls

Fresh == day = 0 /\ \A c \in Cells : state[c] = SUSCEPTIBLE

Infected(grid) == {c \in DOMAIN grid : grid[c] = INFECTED}

\* C8 as stated: infect_randomly(count) with count above width * height on
\* a fresh grid leaves every cell Infected, with no out-of-bounds access and
\* no exception.
SeedingFillsGrid ==
    [][(Fresh /\ cases > width * height /\ SeedStep) =>
        /\ error' = "none"
        /\ \A c \in Cells : state'[c] = INFECTED]_vars

\* C8 as amended: infect_randomly(count) with count above width * height on
\* a fresh grid makes no out-of-bounds access and raises no exception, and
\* leaves at least one and at most width * height cells Infected and every
\* other cell Susceptible.
SeedingStaysInGrid ==
    [][(Fresh /\ cases > width * height /\ SeedStep) =>
        /\ error' = "none"
        /\ DOMAIN state' = Cells
        /\ \A c \in Cells : state'[c] \in {SUSCEPTIBLE, INFECTED}
        /\ Cardinality(Infected(state')) \in 1..(width * height)]_vars

SeedingStaysInGridWitness ==
    /\ day = 0
    /\ width = 2
    /\ height = 2
    /\ cases = 5
    /\ error = "none"
    /\ Cardinality(Infected(state)) = 1

Changed(old, new) == {c \in DOMAIN old : new[c] # old[c]}

\* C9: infect_randomly(count) changes at most count cells, each of them in
\* the grid and Infected afterwards whatever it was before; every other
\* cell keeps its status, an Infected cell selected again stays as it is,
\* and the day counter, the dimensions and the probabilities do not change.
SeedingFrame ==
    [][SeedStep =>
        /\ error' = "none"
        /\ DOMAIN state' = Cells
        /\ Cardinality(Changed(state, state')) <= cases
        /\ \A c \in Changed(state, state') : state'[c] = INFECTED
        /\ \A c \in Infected(state) : state'[c] = INFECTED
        /\ day' = day
        /\ params' = params]_vars

SeedingFrameWitness ==
    /\ width = 1
    /\ height = 1
    /\ recovery_probability = Scale
    /\ cases = 1
    /\ day = 1
    /\ state[<<0, 0>>] = INFECTED

AddFrac(x, y) == <<x[1] * y[2] + y[1] * x[2], x[2] * y[2]>>

\* the sum of the four percentages, as a fraction
SumPercentages(p) ==
    AddFrac(AddFrac(p["susceptible"], p["infected"]),
            AddFrac(p["recovered"], p["dead"]))

SumsTo100(p) == SumPercentages(p)[1] = 100 * SumPercentages(p)[2]

\* C10: in every reachable state every cell holds one of the four statuses,
\* the four counts sum to width * height, and the values of
\* get_percentage_status(), each 100 * count / (width * height), sum to 100.
StatusExclusivity ==
    /\ DOMAIN state = Cells
    /\ \A c \in Cells :
          Cardinality({status \in DOMAIN STATUSES : STATUSES[status] = state[c]}) = 1
    /\ count_nonzero(state, SUSCEPTIBLE) + count_nonzero(state, INFECTED)
          + count_nonzero(state, RECOVERED) + count_nonzero(state, DEAD)
          = width * height
    /\ \A status \in DOMAIN STATUSES :
          LET p == get_percentage_status[status]
          IN  p[1] * width * height
                = 100 * count_nonzero(state, STATUSES[status]) * p[2]
    /\ SumsTo100(get_percentage_status)
    /\ ret.op = "get_percentage_status" =>
          ret.value = get_percentage_status /\ SumsTo100(ret.value)

StatusExclusivityWitness ==
    /\ width = 2
    /\ height = 2
    /\ \A status \in DOMAIN STATUSES : count_nonzero(state, STATUSES[status]) = 1
    /\ ret.op = "get_percentage_status"
    /\ ret.value["dead"] = <<100, 4>>

\* the triple of the colour table for a status code
Triple(statusnum) ==
    CASE statusnum = SUSCEPTIBLE -> <<0, 255, 0>>
      [] statusnum = INFECTED -> <<255, 0, 0>>
      [] statusnum = RECOVERED -> <<0, 0, 255>>
      [] statusnum = DEAD -> <<0, 0, 0>>

\* C11: get_rgb_matrix() returns a width x height array whose cell (i, j)
\* is exactly the triple of the status of that cell: Susceptible (0,255,0),
\* Infected (255,0,0), Recovered (0,0,255), Dead (0,0,0); what a call
\* returned is that function of the current grid, and cells of different
\* statuses never get the same triple.
ColourView ==
    /\ DOMAIN get_rgb_matrix = (0..(width - 1)) \X (0..(height - 1))
    /\ \A c \in Cells : get_rgb_matrix[c] = Triple(state[c])
    /\ ret.op = "get_rgb_matrix" => ret.value = [c \in Cells |-> Triple(state[c])]
    /\ \A a \in Cells, b \in Cells :
           state[a] # state[b] => get_rgb_matrix[a] # get_rgb_matrix[b]

ColourViewWitness ==
    /\ ret.op = "get_rgb_matrix"
    /\ \E a \in Cells, b \in Cells, c \in Cells :
           /\ ret.value[a] = <<0, 255, 0>> /\ state[a] = SUSCEPTIBLE
           /\ ret.value[b] = <<255, 0, 0>> /\ state[b] = INFECTED
           /\ ret.value[c] = <<0, 0, 255>> /\ state[c] = RECOVERED

\* a step of one of the two queries: only they return a value
QueryStep == ret'.op \in {"get_percentage_status", "get_rgb_matrix"}

\* C12: get_percentage_status() and get_rgb_matrix() only read: a call of
\* either leaves the grid, the day counter and the parameters as they were,
\* so queries between updates do not change the grids the simulation goes
\* through.
QueriesReadOnly ==
    [][QueryStep =>
        /\ state' = state
        /\ day' = day
        /\ calls' = calls
        /\ params' = params]_vars

QueriesReadOnlyWitness ==
    /\ ret.op = "get_percentage_status"
    /\ day > 0
    /\ \E c \in Cells : state[c] = INFECTED
    /\ \E c \in Cells : state[c] = RECOVERED

\* C13: construction gives a grid of exactly width x height cells, all
\* Susceptible, on day 0; no later call of infect_randomly, update or a
\* query changes the dimensions of the grid or the three probabilities.
ConstructionFrame ==
    /\ day = 0
    /\ DOMAIN state = (0..(width - 1)) \X (0..(height - 1))
    /\ Cardinality(DOMAIN state) = width * height
    /\ \A c \in DOMAIN state : state[c] = SUSCEPTIBLE
    /\ [][/\ params' = params
          /\ DOMAIN state' = DOMAIN state]_vars

ConstructionFrameWitness ==
    /\ day = MaxDay
    /\ ret.op = "get_rgb_matrix"
    /\ width # height
    /\ \E c \in Cells : state[c] = INFECTED
    /\ \E c \in Cells : state[c] = DEAD

\* C14 as stated: constructing a simulation with width <= 0 or height <= 0
\* fails at construction with an error; no simulation with a grid of no
\* cells comes out of it.
ConstructionRejectsEmptyGrid ==
    (width <= 0 \/ height <= 0) => (pc = "failed" /\ error # "none")

\* C15: probabilities outside [0, 1] are accepted at construction without
\* an error; across an update() every Infected cell ends Recovered if the
\* recovery probability is 1 or more, every Infected cell stays Infected if
\* neither the recovery nor the death probability is above 0, and no
\* Susceptible cell ends Infected if the infection probability is 0 or less.
DegenerateProbabilities ==
    /\ (width > 0 /\ height > 0) => (pc = "library" /\ error = "none")
    /\ [][UpdateStep =>
            \A c \in Cells :
                /\ (recovery_probability >= Scale /\ state[c] = INFECTED)
                       => state'[c] = RECOVERED
                /\ (/\ recovery_probability <= 0
                    /\ death_probability <= 0
                    /\ state[c] = INFECTED) => state'[c] = INFECTED
                /\ (infection_probability <= 0 /\ state[c] = SUSCEPTIBLE)
                       => state'[c] = SUSCEPTIBLE]_vars

\* an update was made with probabilities below 0 and above 1, on a grid with
\* an Infected cell next to a Susceptible one
DegenerateProbabilitiesWitness ==
    /\ recovery_probability > Scale
    /\ infection_probability < 0
    /\ death_probability < 0
    /\ day > 0
    /\ \E c \in Cells : state[c] = RECOVERED
    /\ \E c \in Cells : state[c] = SUSCEPTIBLE

\* C16: plot_simulation(simulation, duration), started on day 0 with
\* duration >= 0, advances the simulation by update() only; its 15 target
\* days are (duration * i) // 14 for i = 0..14 and never decrease; each of
\* the 15 snapshots is taken when simulation.day is the day of its title;
\* when it returns simulation.day is duration.
PlotSchedule ==
    ret.op = "plot_simulation" =>
        LET fig == ret.value
        IN  /\ Len(fig) = 15
            /\ \A k \in 1..15 : fig[k].title = (duration * (k - 1)) \div 14
            /\ \A k \in 1..14 : fig[k].title <= fig[k + 1].title
            /\ \A k \in 1..15 : fig[k].day = fig[k].title
            /\ day = duration
            /\ calls = duration

\* a plot over more days than panels, of a grid with an Infected cell
PlotScheduleWitness ==
    /\ ret.op = "plot_simulation"
    /\ duration > 14
    /\ \E k \in 1..14 : ret.value[k + 1].day > ret.value[k].day + 1
    /\ \E c \in Cells : state[c] = INFECTED

\* C17 as stated: in animation mode the simulation is run for duration
\* days: one playback makes exactly duration calls of simulation.update(),
\* one before each frame, so that simulation.day is duration when the
\* playback is over.
PlaybackRunsDuration ==
    /\ pc \in {"frames", "done"} => calls = frame
    /\ pc = "done" => (calls = duration /\ day = duration)

\* C18 as stated: each frame appends exactly one point per status, and the
\* x-coordinate LineAnimation.update appends is the day counter of the
\* simulation as it was when get_percentage_status() was read, for an
\* animation started on day 0.
PointsAtDay ==
    /\ Len(xdata) = frame
    /\ \A status \in DOMAIN STATUSES : Len(ydata[status]) = frame
    /\ Len(xdata) > 0 => xdata[Len(xdata)] = day

\* C19: across every update() the number of Susceptible cells does not
\* increase and the numbers of Recovered and of Dead cells do not decrease;
\* the only changes of a cell an update makes are Susceptible to Infected,
\* Infected to Recovered and Infected to Dead.
MonotoneCounts ==
    [][UpdateStep =>
        /\ count_nonzero(state', SUSCEPTIBLE) <= count_nonzero(state, SUSCEPTIBLE)
        /\ count_nonzero(state', RECOVERED) >= count_nonzero(state, RECOVERED)
        /\ count_nonzero(state', DEAD) >= count_nonzero(state, DEAD)
        /\ \A c \in Cells :
               state'[c] # state[c] =>
                   <<state[c], state'[c]>> \in {<<SUSCEPTIBLE, INFECTED>>,
                                                <<INFECTED, RECOVERED>>,
                                                <<INFECTED, DEAD>>}]_vars

\* after the updates a grid holds a Recovered, a Dead and an Infected cell
MonotoneCountsWitness ==
    /\ day = MaxDay
    /\ \E a \in Cells, b \in Cells, c \in Cells, e \in Cells :
           /\ state[a] = RECOVERED
           /\ state[b] = DEAD
           /\ state[c] = INFECTED
           /\ state[e] = SUSCEPTIBLE

\* C20: a grid with no Infected cell is a fixed point of update(): whatever
\* the draws and the parameters, the update leaves every cell as it was and
\* only advances the day, so the grid stays as it is through every later
\* update until infect_randomly is called.
NoInfectedFixedPoint ==
    [][(UpdateStep /\ \A c \in Cells : state[c] # INFECTED) =>
        /\ state' = state
        /\ day' = day + 1
        /\ params' = params]_vars

\* MaxDay updates of a grid that was never seeded, the infection
\* probability being 1
NoInfectedFixedPointWitness ==
    /\ calls = MaxDay
    /\ day = MaxDay
    /\ infection_probability = Scale
    /\ Cardinality(Cells) = MaxCells
    /\ \A c \in Cells : state[c] = SUSCEPTIBLE

NoInfected == \A c \in Cells : state[c] # INFECTED

\* C21: the epidemic dies out: whatever the grid and its seeding, if the
\* recovery probability or the death probability is above 0 then, update()
\* being called again and again with fair draws, the run reaches a grid with
\* no Infected cell, and from then on the grid never changes.
EpidemicDiesOut ==
    (recovery_probability > 0 \/ death_probability > 0) =>
        /\ <>[]NoInfected
        /\ <>[][state' = state]_vars

\* an epidemic that spread from the seeded cells and is over
EpidemicDiesOutWitness ==
    /\ pc = "run"
    /\ day > 0
    /\ NoInfected
    /\ \E a \in Cells, b \in Cells :
           a # b /\ state[a] = RECOVERED /\ state[b] = DEAD

=============================================================================
